---------------------------- MODULE Spec2Model ----------------------------
(***************************************************************************)
(* Model of the Cloudflare email worker that forwards an inbound email to  *)
(* an ntfy topic (src/cloudflare-mail2ntfy-worker/src/index.js).           *)
(*                                                                         *)
(* A JavaScript string is a sequence of one-character strings, so that the *)
(* text functions (trim, split, the regular expressions, the decoders) are *)
(* computed character by character as the code computes them.  A code unit *)
(* with no printable form is written "U+<code>" (see fromCharCode).        *)
(***************************************************************************)
EXTENDS Integers, Sequences, FiniteSets, TLC

(***************************************************************************)
(* Bounds of the model.                                                    *)
(***************************************************************************)
\* Longest enumerated header value (subject, recipient) and free text.
MaxLen == 3
\* Longest enumerated address given to generateTopic.
MaxAddrLen == 4
\* Most pieces (delimiters, headers, separators, text) of an enumerated raw message.
MaxPieces == 4
\* Concurrent invocations of the email handler.
NumInvocations == 2

(***************************************************************************)
(* JavaScript built-ins used by the code.                                  *)
(***************************************************************************)
\* The printable ASCII characters, codes 32..126.  The grave accent (96) has
\* no string literal here and is written "U+96".
Printable ==
  <<" ","!","\"","#","$","%","&">> (* " !\"#$%&" *) \o <<"U+39">> \o <<"(",
      ")","*","+",",","-",".","/","0","1","2","3","4","5","6",
      "7","8","9",":",";","<","=",">","?","@","A","B","C","D",
      "E","F","G","H","I","J","K","L","M","N","O","P","Q","R",
      "S","T","U","V","W","X","Y","Z","[","\\","]","^","_">> (* "()*+,-./0123456789:;<=>?@ABCDEFGHIJKLMNOPQRSTUVWXYZ[\\]^_" *)
  \o <<"U+96">> \o <<"a","b","c","d","e","f","g","h","i","j","k",
      "l","m","n","o","p","q","r","s","t","u","v","w","x","y",
      "z","{","|","}","~">> (* "abcdefghijklmnopqrstuvwxyz{|}~" *)

\* String.fromCharCode for one code unit 0..255.
fromCharCode(n) ==
  IF n \in 32..126 THEN Printable[n - 31]
  ELSE IF n = 9 THEN "\t"
  ELSE IF n = 10 THEN "\n"
  ELSE IF n = 12 THEN "\f"
  ELSE IF n = 13 THEN "\r"
  ELSE "U+" \o ToString(n)

\* The characters the regular expression class \s and String.prototype.trim
\* treat as white space, among the code units 0..255.
WhiteSpace == {" ", "\t", "\n", "\r", "\f", fromCharCode(11), fromCharCode(160)}

IsSpace(c) == c \in WhiteSpace

UpperCase == <<"A","B","C","D","E","F","G","H","I","J","K","L",
      "M","N","O","P","Q","R","S","T","U","V","W","X","Y","Z">> (* "ABCDEFGHIJKLMNOPQRSTUVWXYZ" *)
LowerCase == <<"a","b","c","d","e","f","g","h","i","j","k","l",
      "m","n","o","p","q","r","s","t","u","v","w","x","y","z">> (* "abcdefghijklmnopqrstuvwxyz" *)

\* The lower-case letter of each upper-case letter.
LowerOf == [c \in {UpperCase[k] : k \in 1..26} |->
              LowerCase[CHOOSE k \in 1..26 : UpperCase[k] = c]]

\* toLowerCase / the i flag, for one character.
LowerChar(c) == IF c \in DOMAIN LowerOf THEN LowerOf[c] ELSE c

toLowerCase(s) == [k \in 1..Len(s) |-> LowerChar(s[k])]

\* The indices of s, in order.
Indices(s) == [k \in 1..Len(s) |-> k]

MinOf(S) == CHOOSE x \in S : \A y \in S : x <= y

\* t occurs in s at the 1-based position p.
MatchAt(s, t, p) ==
  /\ p >= 1
  /\ p + Len(t) - 1 <= Len(s)
  /\ \A k \in 1..Len(t) : s[p + k - 1] = t[k]

\* t occurs in s at the 1-based position p, letter case ignored (the i flag).
MatchAtCI(s, t, p) ==
  /\ p >= 1
  /\ p + Len(t) - 1 <= Len(s)
  /\ \A k \in 1..Len(t) : LowerChar(s[p + k - 1]) = LowerChar(t[k])

\* String.prototype.indexOf: the 0-based index of the first occurrence, or -1.
indexOf(s, t) ==
  LET hits == {p \in 1..(Len(s) - Len(t) + 1) : s[p] = t[1] /\ MatchAt(s, t, p)}
  IN  IF hits = {} THEN -1 ELSE MinOf(hits) - 1

\* String.prototype.includes.
includes(s, t) == indexOf(s, t) # -1

\* String.prototype.startsWith.
startsWith(s, t) == MatchAt(s, t, 1)

\* String.prototype.slice(start) and slice(0, end), 0-based.
sliceFrom(s, start) == SubSeq(s, start + 1, Len(s))
sliceTo(s, end) == SubSeq(s, 1, IF end < Len(s) THEN end ELSE Len(s))

\* String.prototype.trim.
trim(s) ==
  LET n == Len(s)
  IN  IF \A k \in 1..n : IsSpace(s[k]) THEN <<>>
      ELSE LET first == CHOOSE k \in 1..n :
                          ~IsSpace(s[k]) /\ \A j \in 1..(k - 1) : IsSpace(s[j])
               last  == CHOOSE k \in 1..n :
                          ~IsSpace(s[k]) /\ \A j \in (k + 1)..n : IsSpace(s[j])
           IN  SubSeq(s, first, last)

\* String.prototype.split with a non-empty string separator.
RECURSIVE split(_, _)
split(s, sep) ==
  LET i == indexOf(s, sep)
  IN  IF i = -1 THEN <<s>>
      ELSE <<SubSeq(s, 1, i)>> \o split(sliceFrom(s, i + Len(sep)), sep)

\* Array.prototype.join.
RECURSIVE join(_, _)
join(parts, sep) ==
  IF parts = <<>> THEN <<>>
  ELSE IF Len(parts) = 1 THEN parts[1]
  ELSE parts[1] \o sep \o join(Tail(parts), sep)

\* replace(/\s+/g, ' '): every run of white space becomes one space.
ReplaceSpaceRuns(s) ==
  LET Keep(k) == ~IsSpace(s[k]) \/ k = 1 \/ ~IsSpace(s[k - 1])
      kept    == SelectSeq(Indices(s), Keep)
  IN  [j \in 1..Len(kept) |-> IF IsSpace(s[kept[j]]) THEN " " ELSE s[kept[j]]]

\* replace(/[\r\n]/g, ' ').
ReplaceLineBreaks(s) ==
  [k \in 1..Len(s) |-> IF s[k] \in {"\r", "\n"} THEN " " ELSE s[k]]

\* replace(/\./g, '-').
ReplaceDots(s) == [k \in 1..Len(s) |-> IF s[k] = "." THEN "-" ELSE s[k]]

\* replace(/\/$/, ''): one trailing slash is removed.
ReplaceTrailingSlash(s) ==
  IF Len(s) >= 1 /\ s[Len(s)] = "/" THEN SubSeq(s, 1, Len(s) - 1) ELSE s

\* replace(/--$/, ''): a "--" that ends the text is removed.
ReplaceTrailingDashes(s) ==
  IF Len(s) >= 2 /\ s[Len(s) - 1] = "-" /\ s[Len(s)] = "-"
  THEN SubSeq(s, 1, Len(s) - 2)
  ELSE s

\* replace(/\s/g, '').
RemoveSpaces(s) ==
  LET NotSpace(c) == ~IsSpace(c) IN SelectSeq(s, NotSpace)

(***************************************************************************)
(* Literals of the code.                                                   *)
(***************************************************************************)
CRLFCRLF == <<"\r","\n","\r","\n">> (* "\r\n\r\n" *)
LF == <<"\n">>
BOUNDARY_EQ == <<"b","o","u","n","d","a","r","y","=">> (* "boundary=" *)
DASHDASH == <<"-","-">> (* "--" *)
CONTENT_TYPE_TEXT_PLAIN == <<"C","o","n","t","e","n","t","-","T",
      "y","p","e",":"," ","t","e","x","t","/","p","l","a","i","n">> (* "Content-Type: text/plain" *)
CONTENT_TRANSFER_ENCODING == <<"C","o","n","t","e","n","t","-",
      "T","r","a","n","s","f","e","r","-","E","n","c","o","d",
      "i","n","g",":">> (* "Content-Transfer-Encoding:" *)
QUOTED_PRINTABLE == <<"q","u","o","t","e","d","-","p","r","i",
      "n","t","a","b","l","e">> (* "quoted-printable" *)
BASE64 == <<"b","a","s","e","6","4">> (* "base64" *)
SEVEN_BIT == <<"7","b","i","t">> (* "7bit" *)
UNKNOWN == <<"u","n","k","n","o","w","n">> (* "unknown" *)
TRUNCATED_MARKER == <<"\n","\n","*",".",".",".","t","r","u","n",
      "c","a","t","e","d","*">> (* "\n\n*...truncated*" *)
UNKNOWN_SENDER == <<"(","u","n","k","n","o","w","n"," ","s","e",
      "n","d","e","r",")">> (* "(unknown sender)" *)
NO_SUBJECT == <<"(","n","o"," ","s","u","b","j","e","c","t",")">> (* "(no subject)" *)
\* truncateText's default maxLength.
DefaultMaxLength == 1000

(***************************************************************************)
(* EmailProcessor: the decoders.                                           *)
(***************************************************************************)
HexDigits == <<"0","1","2","3","4","5","6","7","8","9","A","B",
      "C","D","E","F">> (* "0123456789ABCDEF" *)

IsHex(c) == \E k \in 1..16 : LowerChar(HexDigits[k]) = LowerChar(c)

\* parseInt(c, 16) for one hexadecimal digit.
HexVal(c) == (CHOOSE k \in 1..16 : LowerChar(HexDigits[k]) = LowerChar(c)) - 1

\* replace(/=\r?\n/g, ''): the soft line breaks are removed.
RemoveSoftBreaks(s) ==
  LET n == Len(s)
      Lf(k)   == k + 1 <= n /\ s[k] = "=" /\ s[k + 1] = "\n"
      CrLf(k) == k + 2 <= n /\ s[k] = "=" /\ s[k + 1] = "\r" /\ s[k + 2] = "\n"
      Gone(k) == \/ Lf(k) \/ CrLf(k)
                 \/ (k >= 2 /\ (Lf(k - 1) \/ CrLf(k - 1)))
                 \/ (k >= 3 /\ CrLf(k - 2))
      Keep(k) == ~Gone(k)
      kept    == SelectSeq(Indices(s), Keep)
  IN  [j \in 1..Len(kept) |-> s[kept[j]]]

\* replace(/=([A-Fa-f0-9]{2})/g, (_, hex) => String.fromCharCode(parseInt(hex, 16))).
ReplaceHexEscapes(s) ==
  LET n == Len(s)
      Esc(k)  == k >= 1 /\ k + 2 <= n /\ s[k] = "=" /\ IsHex(s[k + 1]) /\ IsHex(s[k + 2])
      Keep(k) == ~(Esc(k - 1) \/ Esc(k - 2))
      kept    == SelectSeq(Indices(s), Keep)
  IN  [j \in 1..Len(kept) |->
         IF Esc(kept[j])
         THEN fromCharCode(16 * HexVal(s[kept[j] + 1]) + HexVal(s[kept[j] + 2]))
         ELSE s[kept[j]]]

decodeQuotedPrintable(input) ==
  IF input = <<>> THEN <<>>
  ELSE ReplaceHexEscapes(RemoveSoftBreaks(input))

Base64Alphabet ==
  <<"A","B","C","D","E","F","G","H","I","J","K","L","M","N","O",
      "P","Q","R","S","T","U","V","W","X","Y","Z","a","b","c",
      "d","e","f","g","h","i","j","k","l","m","n","o","p","q",
      "r","s","t","u","v","w","x","y","z","0","1","2","3","4",
      "5","6","7","8","9","+","/">> (* "ABCDEFGHIJKLMNOPQRSTUVWXYZabcdefghijklmnopqrstuvwxyz0123456789+/" *)

IsBase64Char(c) == \E k \in 1..64 : Base64Alphabet[k] = c

Base64Val(c) == (CHOOSE k \in 1..64 : Base64Alphabet[k] = c) - 1

\* atob's input with its padding removed: when the length is a multiple of
\* four, one or two trailing "=" are dropped.
AtobUnpadded(s) ==
  LET n == Len(s)
  IN  IF n > 0 /\ n % 4 = 0 /\ s[n] = "="
      THEN IF s[n - 1] = "=" THEN SubSeq(s, 1, n - 2) ELSE SubSeq(s, 1, n - 1)
      ELSE s

\* atob throws (InvalidCharacterError) on this input.
AtobThrows(s) ==
  LET d == AtobUnpadded(s)
  IN  \/ Len(d) % 4 = 1
      \/ \E k \in 1..Len(d) : ~IsBase64Char(d[k])

\* atob's result on an input it accepts: six bits a character, eight bits a
\* byte, the bits left over at the end discarded.
AtobDecode(s) ==
  LET d == AtobUnpadded(s)
      n == Len(d)
      Sextet(k) == IF k <= n THEN Base64Val(d[k]) ELSE 0
      Group(g)  == 262144 * Sextet(4 * g + 1) + 4096 * Sextet(4 * g + 2)
                   + 64 * Sextet(4 * g + 3) + Sextet(4 * g + 4)
      Byte(j)   == LET g == j \div 3
                       r == j % 3
                   IN  IF r = 0 THEN Group(g) \div 65536
                       ELSE IF r = 1 THEN (Group(g) \div 256) % 256
                       ELSE Group(g) % 256
  IN  [j \in 1..((n * 6) \div 8) |-> fromCharCode(Byte(j - 1))]

decodeBase64(input) ==
  IF input = <<>> THEN <<>>
  ELSE IF AtobThrows(RemoveSpaces(input)) THEN input
  ELSE AtobDecode(RemoveSpaces(input))

(***************************************************************************)
(* EmailProcessor: body extraction.                                        *)
(***************************************************************************)
\* The characters [^";\r\n] ends at.
BoundaryStop == {"\"", ";", "\r", "\n"}

\* raw.match(/boundary="?([^";\r\n]+)"?/i): the places the expression matches
\* at.  After "boundary=" and an optional quote there must be one character
\* of the class at least (with the quote skipped or not, the next character
\* decides: a quote is not of the class).
BoundaryMatchStarts(raw) ==
  {p \in 1..Len(raw) :
     /\ MatchAtCI(raw, BOUNDARY_EQ, p)
     /\ LET q  == p + Len(BOUNDARY_EQ)
            q1 == IF q <= Len(raw) /\ raw[q] = "\"" THEN q + 1 ELSE q
        IN  q1 <= Len(raw) /\ raw[q1] \notin BoundaryStop}

\* Whether the expression matches (boundaryMatch is not null).
HasBoundary(raw) == BoundaryMatchStarts(raw) # {}

\* boundaryMatch[1]: the longest run of class characters at the first match.
BoundaryOf(raw) ==
  LET p  == MinOf(BoundaryMatchStarts(raw))
      q  == p + Len(BOUNDARY_EQ)
      q1 == IF raw[q] = "\"" THEN q + 1 ELSE q
      e  == CHOOSE k \in q1..Len(raw) :
              /\ \A j \in q1..k : raw[j] \notin BoundaryStop
              /\ (k = Len(raw) \/ raw[k + 1] \in BoundaryStop)
  IN  SubSeq(raw, q1, e)

extractSimpleEmail(raw) ==
  LET headerEnd == indexOf(raw, CRLFCRLF)
  IN  IF headerEnd # -1 THEN trim(sliceFrom(raw, headerEnd + 4)) ELSE trim(raw)

\* part.match(/Content-Transfer-Encoding:\s*(\S+)/i): the places the
\* expression matches at: after the name and any white space (line breaks
\* included) a character that is not white space must follow.
EncodingMatchStarts(part) ==
  {p \in 1..Len(part) :
     /\ MatchAtCI(part, CONTENT_TRANSFER_ENCODING, p)
     /\ \E k \in (p + Len(CONTENT_TRANSFER_ENCODING))..Len(part) : ~IsSpace(part[k])}

\* encodingMatch ? encodingMatch[1].toLowerCase() : '7bit'
EncodingOf(part) ==
  IF EncodingMatchStarts(part) = {} THEN SEVEN_BIT
  ELSE LET p == MinOf(EncodingMatchStarts(part))
           q == p + Len(CONTENT_TRANSFER_ENCODING)
           b == CHOOSE k \in q..Len(part) :
                  ~IsSpace(part[k]) /\ \A j \in q..(k - 1) : IsSpace(part[j])
           e == CHOOSE k \in b..Len(part) :
                  /\ \A j \in b..k : ~IsSpace(part[j])
                  /\ (k = Len(part) \/ IsSpace(part[k + 1]))
       IN  toLowerCase(SubSeq(part, b, e))

\* The part's body before decoding: after the first blank line, trimmed,
\* a closing "--" removed, trimmed again.
PartRawBody(part) ==
  trim(ReplaceTrailingDashes(trim(sliceFrom(part, indexOf(part, CRLFCRLF) + 4))))

\* null is written <<>>: the only caller (extractPlainText) tests the
\* result's truthiness, and null and '' are both falsy.
extractPartBody(part) ==
  LET encoding == EncodingOf(part)
      body     == PartRawBody(part)
  IN  IF indexOf(part, CRLFCRLF) = -1 THEN <<>>
      ELSE IF body = <<>> THEN <<>>
      ELSE IF encoding = QUOTED_PRINTABLE THEN decodeQuotedPrintable(body)
      ELSE IF encoding = BASE64 THEN decodeBase64(body)
      ELSE body

\* The test a part passes to be decoded: the text occurs anywhere in the part.
PartIsPlainText(part) == includes(part, CONTENT_TYPE_TEXT_PLAIN)

extractPlainText(raw) ==
  IF raw = <<>> THEN <<>>
  ELSE IF ~HasBoundary(raw) THEN extractSimpleEmail(raw)
  ELSE LET parts  == split(raw, DASHDASH \o BoundaryOf(raw))
           \* The body each iteration of the loop would return, <<>> for none.
           bodies == [k \in 1..Len(parts) |->
                        IF PartIsPlainText(parts[k]) THEN extractPartBody(parts[k])
                        ELSE <<>>]
           found  == {k \in 1..Len(parts) : bodies[k] # <<>>}
       IN  IF found # {} THEN bodies[MinOf(found)]
           ELSE extractSimpleEmail(raw)

(***************************************************************************)
(* EmailProcessor: cleaning, truncation, topic, headers, payload.          *)
(***************************************************************************)
\* filter(line => !line.trim().startsWith('>'))
NotQuoted(line) == ~startsWith(trim(line), <<">">>)

cleanBodyText(text) ==
  IF text = <<>> THEN <<>>
  ELSE trim(join(SelectSeq(split(trim(ReplaceSpaceRuns(text)), LF), NotQuoted), LF))

truncateText(text, maxLength) ==
  IF text = <<>> \/ Len(text) <= maxLength THEN text
  ELSE sliceTo(text, maxLength) \o TRUNCATED_MARKER

generateTopic(email) ==
  IF email = <<>> \/ ~includes(email, <<"@">>) THEN UNKNOWN
  ELSE LET domain == split(email, <<"@">>)[2]
       IN  IF domain # <<>> THEN ReplaceDots(domain) ELSE UNKNOWN

sanitizeHeader(value) ==
  IF value = <<>> THEN <<>>
  ELSE trim(ReplaceSpaceRuns(ReplaceLineBreaks(value)))

buildMarkdownPayload(emailData) ==
  trim(<<"\n","*","*","D","a","t","e",":","*","*"," ">> (* "\n**Date:** " *) \o sanitizeHeader(emailData.date)
       \o <<"\n","\n","*","*","F","r","o","m",":","*","*"," ">> (* "\n\n**From:** " *) \o sanitizeHeader(emailData.from)
       \o <<" "," ","\n","*","*","T","o",":","*","*"," ">> (* "  \n**To:** " *) \o sanitizeHeader(emailData.to)
       \o <<" "," ","\n","*","*","S","u","b","j","e","c","t",":",
      "*","*"," ">> (* "  \n**Subject:** " *) \o sanitizeHeader(emailData.subject)
       \o <<" "," ","\n","\n","-","-","-","\n","\n">> (* "  \n\n---\n\n" *) \o emailData.body \o <<"\n">>)

\* sendNotification's url.
NotificationUrl(ntfyServer, topic) ==
  ReplaceTrailingSlash(ntfyServer) \o <<"/">> \o topic

\* A faulty variant of NotificationHeaders: the subject and the recipient
\* are put into the headers as they come.
NotificationHeadersUnsanitized(subject, to) ==
  [Title    |-> <<"E","m","a","i","l",":"," ">> (* "Email: " *) \o subject,
   Priority |-> <<"4">>,
   Tags     |-> <<"e","m","a","i","l",",">> (* "email," *) \o to,
   Markdown |-> <<"y","e","s">> (* "yes" *)]

\* sendNotification's headers.
NotificationHeaders(subject, to) ==
  [Title    |-> <<"E","m","a","i","l",":"," ">> (* "Email: " *) \o sanitizeHeader(subject),
   Priority |-> <<"4">>,
   Tags     |-> <<"e","m","a","i","l",",">> (* "email," *) \o sanitizeHeader(to),
   Markdown |-> <<"y","e","s">> (* "yes" *)]

(***************************************************************************)
(* The worker: state.                                                      *)
(***************************************************************************)
VARIABLES
  env,         \* the env binding handed to every invocation (read-only)
  phase,       \* phase[i]: where invocation i of email() stands
  message,     \* message[i]: the message invocation i was called with
  meta,        \* meta[i]: processEmail's to, from, subject, date
  rawRead,     \* rawRead[i]: invocation i started to read message.raw
  requests,    \* requests[i]: the fetch calls invocation i made, in order
  fetchState,  \* fetchState[i]: the state of invocation i's fetch promise
  logs,        \* logs[i]: what invocation i wrote to the console, in order
  raised,      \* raised[i]: the error each function of invocation i threw
  result,      \* result[i]: the state of the promise email() returned
  call         \* a direct call of one EmailProcessor method (unit level)

vars == <<env, phase, message, meta, rawRead, requests, fetchState, logs, raised,
          result, call>>

workerVars == <<env, phase, message, meta, rawRead, requests, fetchState, logs,
                raised, result>>

Invocations == 1..NumInvocations

NoMessage ==
  [to |-> <<>>, from |-> <<>>, headers |-> [from |-> <<>>, subject |-> <<>>, date |-> <<>>],
   raw |-> <<>>, rawReadable |-> TRUE]

NoMeta == [to |-> <<>>, from |-> <<>>, subject |-> <<>>, date |-> <<>>]

NoRaised == [construct |-> "none", send |-> "none", process |-> "none", caught |-> "none"]

NoCall == [fn |-> "none", arg |-> <<>>, result |-> <<>>]

\* The console messages of the code.
LOG_REQUEST_FAILED == "error: ntfy request failed"
LOG_SEND_FAILED == "error: Failed to send ntfy notification"
LOG_SENT == "log: Email notification sent for"
LOG_PROCESSING_FAILED == "error: Email processing failed"
LOG_HANDLER_FAILED == "error: Worker email handler failed"

(***************************************************************************)
(* The worker: the code of one invocation.                                 *)
(***************************************************************************)
\* A faulty variant of ValidEnvironment: only an absent NTFY_SERVER is
\* refused, the empty string passes.
ValidEnvironmentDefinedOnly(e) == e.defined

\* validateEnvironment does not throw: env.NTFY_SERVER is truthy (neither
\* undefined nor the empty string).
ValidEnvironment(e) == e.defined /\ e.NTFY_SERVER # <<>>

\* a || b for strings: the empty string (like null and undefined) is falsy.
Or(a, b) == IF a # <<>> THEN a ELSE b

\* processEmail's metadata; now is new Date().toISOString().
Metadata(m, now) ==
  [to      |-> Or(m.to, <<>>),
   from    |-> Or(m.headers.from, Or(m.from, UNKNOWN_SENDER)),
   subject |-> Or(m.headers.subject, NO_SUBJECT),
   date    |-> Or(m.headers.date, now)]

\* The fetch call processEmail and sendNotification make for the raw text.
Request(e, md, raw) ==
  LET truncatedBody == truncateText(cleanBodyText(extractPlainText(raw)), DefaultMaxLength)
      payload == buildMarkdownPayload([from |-> md.from, to |-> md.to,
                                       subject |-> md.subject, date |-> md.date,
                                       body |-> truncatedBody])
  IN  [method  |-> "POST",
       url     |-> NotificationUrl(e.NTFY_SERVER, generateTopic(md.to)),
       headers |-> NotificationHeaders(md.subject, md.to),
       body    |-> payload]

\* A faulty variant of SendNotificationSettled: a non-success response is
\* thrown like a transport failure.
SendNotificationThrowsOnNotOk(state) ==
  IF state = "failed" THEN [log |-> <<LOG_SEND_FAILED>>, throws |-> "TransportError"]
  ELSE IF state = "notok" THEN [log |-> <<LOG_REQUEST_FAILED>>, throws |-> "HttpError"]
  ELSE [log |-> <<>>, throws |-> "none"]

\* sendNotification after its fetch settled: what it logs and throws.
SendNotificationSettled(state) ==
  IF state = "failed" THEN [log |-> <<LOG_SEND_FAILED>>, throws |-> "TransportError"]
  ELSE IF state = "notok" THEN [log |-> <<LOG_REQUEST_FAILED>>, throws |-> "none"]
  ELSE [log |-> <<>>, throws |-> "none"]

\* processEmail's catch: logs and throws the error again.
ProcessEmailCatch(error) == [log |-> <<LOG_PROCESSING_FAILED>>, throws |-> error]

\* A faulty variant of EmailCatch: the error is thrown again and the
\* returned promise rejects.
EmailCatchRethrows(error) == [log |-> <<LOG_HANDLER_FAILED>>, result |-> "rejected"]

\* email's catch: logs and does not throw; the returned promise resolves.
EmailCatch(error) == [log |-> <<LOG_HANDLER_FAILED>>, result |-> "resolved"]

(***************************************************************************)
(* The worker: the steps of one invocation, cut at its awaits.             *)
(***************************************************************************)
\* email(message, env, ctx) is called with m: the processor is constructed
\* and processEmail runs to its first await, the read of message.raw.
Email(i, m, now) ==
  /\ phase[i] = "idle"
  /\ message' = [message EXCEPT ![i] = m]
  /\ IF ~ValidEnvironment(env)
     THEN /\ raised' = [raised EXCEPT ![i].construct = "ConfigError",
                                      ![i].caught = "ConfigError"]
          /\ logs' = [logs EXCEPT ![i] = @ \o EmailCatch("ConfigError").log]
          /\ result' = [result EXCEPT ![i] = EmailCatch("ConfigError").result]
          /\ phase' = [phase EXCEPT ![i] = "done"]
          /\ UNCHANGED <<meta, rawRead>>
     ELSE /\ meta' = [meta EXCEPT ![i] = Metadata(m, now)]
          /\ rawRead' = [rawRead EXCEPT ![i] = TRUE]
          /\ phase' = [phase EXCEPT ![i] = "reading"]
          /\ UNCHANGED <<raised, logs, result>>
  /\ UNCHANGED <<env, requests, fetchState, call>>

\* A faulty variant of RawText: fetch is called and not awaited, so the
\* invocation logs its success and completes at once.
RawTextNoAwait(i) ==
  /\ phase[i] = "reading"
  /\ message[i].rawReadable
  /\ requests' = [requests EXCEPT ![i] = Append(@, Request(env, meta[i], message[i].raw))]
  /\ fetchState' = [fetchState EXCEPT ![i] = "inflight"]
  /\ logs' = [logs EXCEPT ![i] = @ \o <<LOG_SENT>>]
  /\ result' = [result EXCEPT ![i] = "resolved"]
  /\ phase' = [phase EXCEPT ![i] = "done"]
  /\ UNCHANGED <<env, message, meta, rawRead, raised, call>>

\* A faulty variant of RawText: the email being processed is kept in one
\* place shared by all invocations, which holds that of the latest started
\* invocation (the one of the highest number here).
RawTextShared(i) ==
  /\ phase[i] = "reading"
  /\ message[i].rawReadable
  /\ LET j == CHOOSE j \in Invocations :
                /\ phase[j] # "idle"
                /\ \A k \in Invocations : phase[k] # "idle" => k <= j
     IN  requests' = [requests EXCEPT
                        ![i] = Append(@, Request(env, meta[j], message[j].raw))]
  /\ fetchState' = [fetchState EXCEPT ![i] = "inflight"]
  /\ phase' = [phase EXCEPT ![i] = "fetching"]
  /\ UNCHANGED <<env, message, meta, rawRead, logs, raised, result, call>>

\* The raw text arrives: processEmail builds the notification and
\* sendNotification calls fetch and awaits it.
RawText(i) ==
  /\ phase[i] = "reading"
  /\ message[i].rawReadable
  /\ requests' = [requests EXCEPT ![i] = Append(@, Request(env, meta[i], message[i].raw))]
  /\ fetchState' = [fetchState EXCEPT ![i] = "inflight"]
  /\ phase' = [phase EXCEPT ![i] = "fetching"]
  /\ UNCHANGED <<env, message, meta, rawRead, logs, raised, result, call>>

\* The read of message.raw rejects: processEmail's catch, then email's.
RawTextFails(i) ==
  /\ phase[i] = "reading"
  /\ ~message[i].rawReadable
  /\ raised' = [raised EXCEPT ![i].process = ProcessEmailCatch("ReadError").throws,
                              ![i].caught = ProcessEmailCatch("ReadError").throws]
  /\ logs' = [logs EXCEPT ![i] = @ \o ProcessEmailCatch("ReadError").log
                                   \o EmailCatch(ProcessEmailCatch("ReadError").throws).log]
  /\ result' = [result EXCEPT
                  ![i] = EmailCatch(ProcessEmailCatch("ReadError").throws).result]
  /\ phase' = [phase EXCEPT ![i] = "done"]
  /\ UNCHANGED <<env, message, meta, rawRead, requests, fetchState, call>>

\* The server answers; ok is response.ok.
FetchResponds(i, ok) ==
  /\ phase[i] = "fetching"
  /\ fetchState[i] = "inflight"
  /\ fetchState' = [fetchState EXCEPT ![i] = IF ok THEN "ok" ELSE "notok"]
  /\ UNCHANGED <<env, phase, message, meta, rawRead, requests, logs, raised, result, call>>

\* A faulty variant of FetchFails: a request that failed at the transport
\* level is sent once more before the failure is reported.
FetchFailsWithRetry(i) ==
  /\ phase[i] = "fetching"
  /\ fetchState[i] = "inflight"
  /\ IF Len(requests[i]) < 2
     THEN /\ requests' = [requests EXCEPT ![i] = Append(@, @[1])]
          /\ UNCHANGED fetchState
     ELSE /\ fetchState' = [fetchState EXCEPT ![i] = "failed"]
          /\ UNCHANGED requests
  /\ UNCHANGED <<env, phase, message, meta, rawRead, logs, raised, result, call>>

\* The request fails at the transport level: the fetch promise rejects.
FetchFails(i) ==
  /\ phase[i] = "fetching"
  /\ fetchState[i] = "inflight"
  /\ fetchState' = [fetchState EXCEPT ![i] = "failed"]
  /\ UNCHANGED <<env, phase, message, meta, rawRead, requests, logs, raised, result, call>>

\* The invocation resumes after its fetch settled: the rest of
\* sendNotification, of processEmail and of email.
Resume(i) ==
  /\ phase[i] = "fetching"
  /\ fetchState[i] # "inflight"
  /\ LET sent == SendNotificationSettled(fetchState[i])
     IN  IF sent.throws = "none"
         THEN /\ logs' = [logs EXCEPT ![i] = @ \o sent.log \o <<LOG_SENT>>]
              /\ result' = [result EXCEPT ![i] = "resolved"]
              /\ UNCHANGED raised
         ELSE /\ raised' = [raised EXCEPT
                              ![i].send = sent.throws,
                              ![i].process = ProcessEmailCatch(sent.throws).throws,
                              ![i].caught = ProcessEmailCatch(sent.throws).throws]
              /\ logs' = [logs EXCEPT
                            ![i] = @ \o sent.log \o ProcessEmailCatch(sent.throws).log
                                     \o EmailCatch(ProcessEmailCatch(sent.throws).throws).log]
              /\ result' = [result EXCEPT
                              ![i] = EmailCatch(ProcessEmailCatch(sent.throws).throws).result]
  /\ phase' = [phase EXCEPT ![i] = "done"]
  /\ UNCHANGED <<env, message, meta, rawRead, requests, fetchState, call>>

(***************************************************************************)
(* The worker: its inputs.                                                 *)
(***************************************************************************)
\* All strings over the characters A of length n at most.
Strings(A, n) == UNION {[1..k -> A] : k \in 0..n}

\* The env bindings: NTFY_SERVER absent, empty, and set (without and with
\* trailing slashes).
Envs ==
  {[defined |-> FALSE, NTFY_SERVER |-> <<>>],
   [defined |-> TRUE, NTFY_SERVER |-> <<>>],
   [defined |-> TRUE, NTFY_SERVER |-> <<"h","t","t","p","s",":",
      "/","/","n","t","f","y",".","e","x","a","m","p","l","e",
      ".","c","o","m">> (* "https://ntfy.example.com" *)],
   [defined |-> TRUE, NTFY_SERVER |-> <<"h","t","t","p","s",":",
      "/","/","n","t","f","y",".","e","x","a","m","p","l","e",
      ".","c","o","m","/">> (* "https://ntfy.example.com/" *)],
   [defined |-> TRUE, NTFY_SERVER |-> <<"h","t","t","p","s",":",
      "/","/","n","t","f","y",".","e","x","a","m","p","l","e",
      ".","c","o","m","/","/">> (* "https://ntfy.example.com//" *)]}

\* The env bindings of the concurrent specification: NTFY_SERVER absent,
\* empty, and set as in the tests.
ConcurrentEnvs == {e \in Envs : Len(e.NTFY_SERVER) <= Len(<<"h",
      "t","t","p","s",":","/","/","n","t","f","y",".","e","x",
      "a","m","p","l","e",".","c","o","m">> (* "https://ntfy.example.com" *))}

\* What new Date().toISOString() may return.
Clock == {<<"2","0","2","5","-","0","6","-","2","7","T","1","2",
      ":","0","0",":","0","0",".","0","0","0","Z">> (* "2025-06-27T12:00:00.000Z" *), <<"2",
      "0","2","5","-","0","6","-","2","7","T","1","2",":","0",
      "0",":","0","1",".","0","0","0","Z">> (* "2025-06-27T12:00:01.000Z" *)}

\* The message of the tests 'processes a full email' and 'handles email
\* event without throwing'.
TestMessage ==
  [to |-> <<"u","s","e","r","@","e","x","a","m","p","l","e",".",
      "c","o","m">> (* "user@example.com" *),
   from |-> <<"s","e","n","d","e","r","@","e","x","a","m","p",
      "l","e",".","c","o","m">> (* "sender@example.com" *),
   headers |-> [from |-> <<"s","e","n","d","e","r","@","e","x",
      "a","m","p","l","e",".","c","o","m">> (* "sender@example.com" *), subject |-> <<"T",
      "e","s","t">> (* "Test" *),
                date |-> <<"2","0","2","5","-","0","6","-","2","7">> (* "2025-06-27" *)],
   raw |-> <<"F","r","o","m",":"," ","s","e","n","d","e","r","@",
      "e","x","a","m","p","l","e",".","c","o","m","\r","\n","T",
      "o",":"," ","u","s","e","r","@","e","x","a","m","p","l",
      "e",".","c","o","m","\r","\n","S","u","b","j","e","c","t",
      ":"," ","T","e","s","t","\r","\n","D","a","t","e",":"," ",
      "2","0","2","5","-","0","6","-","2","7","\r","\n","\r","\n",
      "H","e","l","l","o"," ","w","o","r","l","d","!">> (* "From: sender@example.com\r\nTo: user@example.com\r\nSubject: Test\r\nDate: 2025-06-27\r\n\r\nHello world!" *),
   rawReadable |-> TRUE]

\* A message with no From, Subject and Date header and a quoted reply.
BareMessage ==
  [to |-> <<"a","@","b",".","c">> (* "a@b.c" *),
   from |-> <<"s","@","x",".","y">> (* "s@x.y" *),
   headers |-> [from |-> <<>>, subject |-> <<>>, date |-> <<>>],
   raw |-> <<"T","o",":"," ","a","@","b",".","c","\r","\n","\r",
      "\n","o","k","\n",">"," ","o","l","d">> (* "To: a@b.c\r\n\r\nok\n> old" *),
   rawReadable |-> TRUE]

\* A message whose raw stream fails when it is read.
UnreadableMessage == [TestMessage EXCEPT !.rawReadable = FALSE]

\* The messages of the concurrent specification.
Messages == {TestMessage, BareMessage, UnreadableMessage}

HeaderChars == {"a", " ", "\t", "\r", "\n"}
RecipientChars == {"a", "@", ".", " ", "\n"}

\* The header value of the test 'sanitizes header' of the specification.
SanitizeExample == <<" "," ","a","\r","\n","b"," ">> (* "  a\r\nb " *)

RawHeader == <<"S","u","b","j","e","c","t",":"," ","T","e","s",
      "t","\r","\n","\r","\n">> (* "Subject: Test\r\n\r\n" *)

\* A multipart message: an HTML part, then a quoted-printable plain part.
MimeRaw ==
  <<"C","o","n","t","e","n","t","-","T","y","p","e",":"," ","m",
      "u","l","t","i","p","a","r","t","/","a","l","t","e","r",
      "n","a","t","i","v","e",";"," ","b","o","u","n","d","a",
      "r","y","=","\"","B","1","\"","\r","\n","\r","\n">> (* "Content-Type: multipart/alternative; boundary=\"B1\"\r\n\r\n" *)
  \o <<"-","-","B","1","\r","\n","C","o","n","t","e","n","t","-",
      "T","y","p","e",":"," ","t","e","x","t","/","h","t","m",
      "l","\r","\n","\r","\n","<","b",">","H","i","<","/","b",
      ">","\r","\n">> (* "--B1\r\nContent-Type: text/html\r\n\r\n<b>Hi</b>\r\n" *)
  \o <<"-","-","B","1","\r","\n","C","o","n","t","e","n","t","-",
      "T","y","p","e",":"," ","t","e","x","t","/","p","l","a",
      "i","n","\r","\n","C","o","n","t","e","n","t","-","T","r",
      "a","n","s","f","e","r","-","E","n","c","o","d","i","n",
      "g",":"," ","q","u","o","t","e","d","-","p","r","i","n",
      "t","a","b","l","e","\r","\n","\r","\n","H","i","=","2",
      "1"," ","=","\r","\n","y","o","u","\r","\n">> (* "--B1\r\nContent-Type: text/plain\r\nContent-Transfer-Encoding: quoted-printable\r\n\r\nHi=21 =\r\nyou\r\n" *)
  \o <<"-","-","B","1","-","-","\r","\n">> (* "--B1--\r\n" *)

\* Raw texts: a body of exactly, and of more than, DefaultMaxLength
\* characters; a multipart message; a body that is one quoted line; none.
RawSamples ==
  {RawHeader \o [k \in 1..DefaultMaxLength |-> "a"],
   RawHeader \o [k \in 1..(DefaultMaxLength + 5) |-> "a"],
   MimeRaw,
   RawHeader \o <<">"," ","q","u","o","t","e","d">> (* "> quoted" *),
   <<>>}

\* The messages of the single-invocation specification.
WideMessages ==
  {[TestMessage EXCEPT !.headers.subject = x] :
     x \in Strings(HeaderChars, MaxLen) \cup {SanitizeExample}}
  \cup {[TestMessage EXCEPT !.to = x] : x \in Strings(RecipientChars, MaxLen)}
  \cup {[TestMessage EXCEPT !.raw = x] : x \in RawSamples}
  \cup {BareMessage, UnreadableMessage}

(***************************************************************************)
(* The worker: specifications.                                             *)
(***************************************************************************)
WorkerInit ==
  /\ phase = [i \in Invocations |-> "idle"]
  /\ message = [i \in Invocations |-> NoMessage]
  /\ meta = [i \in Invocations |-> NoMeta]
  /\ rawRead = [i \in Invocations |-> FALSE]
  /\ requests = [i \in Invocations |-> <<>>]
  /\ fetchState = [i \in Invocations |-> "none"]
  /\ logs = [i \in Invocations |-> <<>>]
  /\ raised = [i \in Invocations |-> NoRaised]
  /\ result = [i \in Invocations |-> "pending"]

Init == WorkerInit /\ env \in ConcurrentEnvs /\ call = NoCall

\* Email events handled concurrently, their steps interleaved at the awaits.
Next ==
  \E i \in Invocations :
    \/ \E m \in Messages, now \in Clock : Email(i, m, now)
    \/ RawText(i)
    \/ RawTextFails(i)
    \/ \E ok \in BOOLEAN : FetchResponds(i, ok)
    \/ FetchFails(i)
    \/ Resume(i)

Spec == Init /\ [][Next]_vars

\* One email event, over the wide message set.
NextSingle ==
  \/ \E m \in WideMessages, now \in Clock : Email(1, m, now)
  \/ RawText(1)
  \/ RawTextFails(1)
  \/ \E ok \in BOOLEAN : FetchResponds(1, ok)
  \/ FetchFails(1)
  \/ Resume(1)

InitSingle == WorkerInit /\ env \in Envs /\ call = NoCall

SpecSingle == InitSingle /\ [][NextSingle]_vars

(***************************************************************************)
(* Direct calls of the text methods.                                       *)
(***************************************************************************)
TextChars == {"a", " ", "\n", ">"}
AddressChars == {"a", "@", "."}

\* The example of the test 'cleans body text'.
CleanExample == <<"L","i","n","e"," ","1","\n",">"," ","q","u",
      "o","t","e","d","\n","L","i","n","e"," ","2">> (* "Line 1\n> quoted\nLine 2" *)

\* The pieces multipart raw texts are put together from.
MimePrologue == <<"C","o","n","t","e","n","t","-","T","y","p",
      "e",":"," ","m","u","l","t","i","p","a","r","t","/","a",
      "l","t","e","r","n","a","t","i","v","e",";"," ","b","o",
      "u","n","d","a","r","y","=","\"","B","1","\"","\r","\n",
      "\r","\n">> (* "Content-Type: multipart/alternative; boundary=\"B1\"\r\n\r\n" *)

MimePieces ==
  {<<"-","-","B","1","\r","\n">> (* "--B1\r\n" *),
   <<"C","o","n","t","e","n","t","-","T","y","p","e",":"," ","t",
      "e","x","t","/","p","l","a","i","n","\r","\n">> (* "Content-Type: text/plain\r\n" *),
   <<"C","o","n","t","e","n","t","-","T","y","p","e",":"," ","t",
      "e","x","t","/","h","t","m","l","\r","\n">> (* "Content-Type: text/html\r\n" *),
   <<"C","o","n","t","e","n","t","-","T","r","a","n","s","f","e",
      "r","-","E","n","c","o","d","i","n","g",":"," ","q","u",
      "o","t","e","d","-","p","r","i","n","t","a","b","l","e",
      "\r","\n">> (* "Content-Transfer-Encoding: quoted-printable\r\n" *),
   <<"C","o","n","t","e","n","t","-","T","r","a","n","s","f","e",
      "r","-","E","n","c","o","d","i","n","g",":"," ","b","a",
      "s","e","6","4","\r","\n">> (* "Content-Transfer-Encoding: base64\r\n" *),
   <<"\r","\n">> (* "\r\n" *),
   <<"H","i","=","2","1","\r","\n">> (* "Hi=21\r\n" *),
   <<"S","G","k","h","\r","\n">> (* "SGkh\r\n" *),
   <<"<","p",">","C","o","n","t","e","n","t","-","T","y","p","e",
      ":"," ","t","e","x","t","/","p","l","a","i","n","<","/",
      "p",">","\r","\n">> (* "<p>Content-Type: text/plain</p>\r\n" *),
   <<"-","-","B","1","-","-","\r","\n">> (* "--B1--\r\n" *)}

RECURSIVE Concat(_)
Concat(pieces) == IF pieces = <<>> THEN <<>> ELSE pieces[1] \o Concat(Tail(pieces))

MimeInputs == {MimePrologue \o Concat(ps) : ps \in Strings(MimePieces, MaxPieces)}

FnInputs ==
  Strings(TextChars, MaxLen) \cup {CleanExample}
  \cup Strings(AddressChars, MaxAddrLen)
  \cup {<<"u","s","e","r","@","s","u","b",".","e","x","a","m",
      "p","l","e",".","c","o","m">> (* "user@sub.example.com" *), <<"n",
      "o","t","-","a","n","-","e","m","a","i","l">> (* "not-an-email" *), <<"H",
      "e","a","d","e","r",":"," ","v","\r","\n","\r","\n","B",
      "o","d","y"," ","t","e","x","t">> (* "Header: v\r\n\r\nBody text" *), MimeRaw}
  \cup MimeInputs

InitFn ==
  /\ WorkerInit
  /\ env = [defined |-> TRUE, NTFY_SERVER |-> <<"h","t","t","p",
      "s",":","/","/","n","t","f","y",".","e","x","a","m","p",
      "l","e",".","c","o","m">> (* "https://ntfy.example.com" *)]
  /\ call \in {[fn |-> "none", arg |-> x, result |-> <<>>] : x \in FnInputs}

ApplyCleanBodyText ==
  /\ call.fn = "none"
  /\ call' = [call EXCEPT !.fn = "cleanBodyText", !.result = cleanBodyText(call.arg)]
  /\ UNCHANGED workerVars

ApplyGenerateTopic ==
  /\ call.fn = "none"
  /\ call' = [call EXCEPT !.fn = "generateTopic", !.result = generateTopic(call.arg)]
  /\ UNCHANGED workerVars

ApplyExtractPlainText ==
  /\ call.fn = "none"
  /\ call' = [call EXCEPT !.fn = "extractPlainText", !.result = extractPlainText(call.arg)]
  /\ UNCHANGED workerVars

NextFn == ApplyCleanBodyText \/ ApplyGenerateTopic \/ ApplyExtractPlainText

SpecFn == InitFn /\ [][NextFn]_vars

(***************************************************************************)
(* Properties.                                                             *)
(***************************************************************************)
\* t occurs in s.
Occurs(t, s) == \E p \in 1..(Len(s) - Len(t) + 1) : SubSeq(s, p, p + Len(t) - 1) = t

\* x is among the entries of the sequence q.
Logged(q, x) == \E k \in 1..Len(q) : q[k] = x

\* NTFY_SERVER is configured: neither absent nor empty.
ServerConfigured == env.defined /\ env.NTFY_SERVER # <<>>

\* Something failed inside invocation i: the construction, the read of the
\* message, or the request at the transport level.
FailedInside(i) ==
  \/ phase[i] = "done" /\ ~ServerConfigured
  \/ phase[i] = "done" /\ rawRead[i] /\ ~message[i].rawReadable
  \/ phase[i] = "done" /\ fetchState[i] = "failed"

\* C1: the top-level email handler never raises: its promise is never
\* rejected, it is resolved once the invocation is over, and whatever failed
\* inside (construction, reading the message, the transport) was caught and
\* logged by the handler.
C1_HandlerNeverRaises ==
  \A i \in Invocations :
    /\ result[i] # "rejected"
    /\ phase[i] = "done" => result[i] = "resolved"
    /\ FailedInside(i) =>
         /\ raised[i].caught # "none"
         /\ logs[i] # <<>>
         /\ logs[i][Len(logs[i])] = LOG_HANDLER_FAILED

\* C1's case: one invocation over after a transport failure, another after a
\* failed read, both resolved.
C1_Witness ==
  \E i, j \in Invocations :
    /\ phase[i] = "done" /\ fetchState[i] = "failed" /\ result[i] = "resolved"
    /\ phase[j] = "done" /\ rawRead[j] /\ ~message[j].rawReadable
    /\ result[j] = "resolved"

\* The configured base with a single trailing slash trimmed.
TrimmedBase(e) ==
  IF e.NTFY_SERVER[Len(e.NTFY_SERVER)] = "/"
  THEN SubSeq(e.NTFY_SERVER, 1, Len(e.NTFY_SERVER) - 1)
  ELSE e.NTFY_SERVER

\* C2: with NTFY_SERVER configured and a readable message an invocation
\* issues exactly one POST: never more than one, none only before the raw
\* text arrived, one from then on whatever the response or transport outcome;
\* its URL is the trimmed base, "/" and generateTopic(recipient); its body
\* contains the extracted, cleaned and truncated message body.
C2_ExactlyOnePost ==
  \A i \in Invocations :
    /\ Len(requests[i]) <= 1
    /\ (phase[i] \in {"fetching", "done"} /\ ServerConfigured
        /\ message[i].rawReadable) =>
         /\ Len(requests[i]) = 1
         /\ requests[i][1].method = "POST"
         /\ requests[i][1].url
              = TrimmedBase(env) \o <<"/">> \o generateTopic(message[i].to)
         /\ Occurs(truncateText(cleanBodyText(extractPlainText(message[i].raw)),
                                DefaultMaxLength),
                   requests[i][1].body)

\* C2's case: an invocation over after a transport failure, its base URL
\* ending in a slash, its body truncated.
C2_Witness ==
  /\ phase[1] = "done"
  /\ fetchState[1] = "failed"
  /\ env.NTFY_SERVER # <<>>
  /\ env.NTFY_SERVER[Len(env.NTFY_SERVER)] = "/"
  /\ Len(requests[1]) = 1
  /\ Occurs(TRUNCATED_MARKER, requests[1][1].body)

\* C3: with NTFY_SERVER absent or empty the construction fails before any
\* email is processed: the raw message is never read and no POST is issued.
C3_ConfigurationFailsFast ==
  ~ServerConfigured =>
    \A i \in Invocations :
      /\ ~rawRead[i]
      /\ requests[i] = <<>>
      /\ fetchState[i] = "none"
      /\ phase[i] \in {"idle", "done"}
      /\ phase[i] = "done" => raised[i].construct = "ConfigError"

\* C3's case: an invocation over with NTFY_SERVER set to the empty string.
C3_Witness ==
  /\ env.defined
  /\ env.NTFY_SERVER = <<>>
  /\ \E i \in Invocations : phase[i] = "done" /\ message[i] = TestMessage

\* A line with its runs of white space normalized to single spaces.
NormalizedLine(line) == trim(ReplaceSpaceRuns(line))

\* What C4 says cleanBodyText returns: the lines (split on line feed) whose
\* trimmed content does not begin with ">", white space runs inside each
\* normalized, rejoined with line feeds, the result trimmed.
ClaimedCleanBodyText(text) ==
  LET kept == SelectSeq(split(text, LF), NotQuoted)
  IN  trim(join([k \in 1..Len(kept) |-> NormalizedLine(kept[k])], LF))

\* C4: cleanBodyText drops the quoted-reply lines and keeps the line
\* structure of the rest; cleanBodyText("Line 1\n> quoted\nLine 2") is
\* "Line 1\nLine 2".
C4_CleanBodyTextKeepsLines ==
  call.fn = "cleanBodyText" =>
    /\ call.result = ClaimedCleanBodyText(call.arg)
    /\ call.arg = CleanExample => call.result = <<"L","i","n",
      "e"," ","1","\n","L","i","n","e"," ","2">> (* "Line 1\nLine 2" *)

\* The header block of a part: what precedes its first blank line.
HeaderBlock(part) ==
  IF indexOf(part, CRLFCRLF) = -1 THEN part
  ELSE sliceTo(part, indexOf(part, CRLFCRLF))

\* What C5 says extractPlainText returns on a raw text with a boundary.
ClaimedExtractPlainText(raw) ==
  LET parts  == split(raw, DASHDASH \o BoundaryOf(raw))
      bodies == [k \in 1..Len(parts) |->
                   IF includes(HeaderBlock(parts[k]), CONTENT_TYPE_TEXT_PLAIN)
                   THEN extractPartBody(parts[k])
                   ELSE <<>>]
      found  == {k \in 1..Len(parts) : bodies[k] # <<>>}
  IN  IF found # {} THEN bodies[MinOf(found)] ELSE extractSimpleEmail(raw)

\* C5: on a raw text with a boundary token extractPlainText returns the
\* first non-empty decoded body, in part order, among the parts whose header
\* block declares Content-Type: text/plain; a part whose header block lacks
\* the declaration is skipped even if its body mentions it; with no such body
\* the result is the non-MIME extraction over the whole raw text.
C5_ExtractPlainTextReadsHeaderBlock ==
  (call.fn = "extractPlainText" /\ HasBoundary(call.arg)) =>
    call.result = ClaimedExtractPlainText(call.arg)

\* What C6 says generateTopic returns.
ClaimedGenerateTopic(email) ==
  IF ~Occurs(<<"@">>, email) THEN UNKNOWN
  ELSE LET at     == CHOOSE p \in 1..Len(email) :
                       email[p] = "@" /\ \A q \in 1..(p - 1) : email[q] # "@"
           domain == SubSeq(email, at + 1, Len(email))
       IN  IF domain = <<>> THEN UNKNOWN
           ELSE [k \in 1..Len(domain) |-> IF domain[k] = "." THEN "-" ELSE domain[k]]

\* C6: generateTopic returns "unknown" for an address without "@" or with
\* an empty domain, and otherwise the whole substring after the first "@"
\* with every "." replaced by "-", also when the address holds more than one
\* "@"; the result never contains ".".
C6_GenerateTopicTakesAllAfterFirstAt ==
  call.fn = "generateTopic" =>
    /\ call.result = ClaimedGenerateTopic(call.arg)
    /\ ~Occurs(<<".">>, call.result)

\* s holds no carriage return and no line feed.
NoLineBreak(s) == \A k \in 1..Len(s) : s[k] \notin {"\r", "\n"}

\* s holds no two white space characters in a row and none at either end.
Tidy(s) ==
  /\ \A k \in 1..(Len(s) - 1) : ~(s[k] \in WhiteSpace /\ s[k + 1] \in WhiteSpace)
  /\ s # <<>> => (s[1] \notin WhiteSpace /\ s[Len(s)] \notin WhiteSpace)

TITLE_PREFIX == <<"E","m","a","i","l",":"," ">> (* "Email: " *)
TAGS_PREFIX == <<"e","m","a","i","l",",">> (* "email," *)

\* C7: no header injection: the Title and Tags headers of every POST hold no
\* carriage return and no line feed, and their sanitized part has no run of
\* white space and none at its ends; the subject "  a\r\nb " gives "a b".
C7_NoHeaderInjection ==
  \A i \in Invocations :
    \A k \in 1..Len(requests[i]) :
      LET title == requests[i][k].headers.Title
          tags  == requests[i][k].headers.Tags
      IN  /\ NoLineBreak(title)
          /\ NoLineBreak(tags)
          /\ SubSeq(title, 1, Len(TITLE_PREFIX)) = TITLE_PREFIX
          /\ SubSeq(tags, 1, Len(TAGS_PREFIX)) = TAGS_PREFIX
          /\ Tidy(SubSeq(title, Len(TITLE_PREFIX) + 1, Len(title)))
          /\ Tidy(SubSeq(tags, Len(TAGS_PREFIX) + 1, Len(tags)))
          /\ message[i].headers.subject = SanitizeExample
               => title = TITLE_PREFIX \o <<"a"," ","b">> (* "a b" *)

\* C7's case: a POST was issued for a subject with a line break in it.
C7_Witness ==
  /\ requests[1] # <<>>
  /\ message[1].headers.subject = SanitizeExample
  /\ ~NoLineBreak(message[1].headers.subject)

\* C8: sendNotification raises to its caller if and only if the request
\* failed at the transport level.  A non-success response is logged and the
\* call completes (no error, no second request); a transport failure is
\* logged and the same error passes through processEmail to the handler.
C8_RaisesOnlyOnTransportFailure ==
  \A i \in Invocations :
    (phase[i] = "done" /\ requests[i] # <<>>) =>
      /\ raised[i].send # "none" <=> fetchState[i] = "failed"
      /\ fetchState[i] = "notok" =>
           /\ Logged(logs[i], LOG_REQUEST_FAILED)
           /\ raised[i] = NoRaised
           /\ Len(requests[i]) = 1
           /\ result[i] = "resolved"
      /\ fetchState[i] = "ok" => raised[i] = NoRaised /\ logs[i] = <<LOG_SENT>>
      /\ fetchState[i] = "failed" =>
           /\ logs[i] = <<LOG_SEND_FAILED, LOG_PROCESSING_FAILED, LOG_HANDLER_FAILED>>
           /\ raised[i].send = "TransportError"
           /\ raised[i].process = raised[i].send
           /\ raised[i].caught = raised[i].send

\* C8's case: one invocation over after a non-success response, another
\* after a transport failure.
C8_Witness ==
  \E i, j \in Invocations :
    /\ phase[i] = "done" /\ fetchState[i] = "notok"
    /\ phase[j] = "done" /\ fetchState[j] = "failed"

\* C9: the handler never completes while its request is in flight, and the
\* success log is written only after the request settled without a transport
\* failure.
C9_CompletesAfterFetchSettled ==
  \A i \in Invocations :
    /\ result[i] # "pending" => fetchState[i] # "inflight"
    /\ phase[i] = "done" => fetchState[i] # "inflight"
    /\ Logged(logs[i], LOG_SENT) => fetchState[i] \in {"ok", "notok"}

\* C9's case: an invocation completed, with the success log, while another
\* one's request is in flight.
C9_Witness ==
  \E i, j \in Invocations :
    /\ result[i] = "resolved" /\ Logged(logs[i], LOG_SENT)
    /\ fetchState[j] = "inflight" /\ result[j] = "pending"

\* The console output of an invocation that is over, from what is its own:
\* whether the environment is valid, whether its message is readable, and how
\* its own request settled.
OwnLogs(i) ==
  IF ~ServerConfigured THEN <<LOG_HANDLER_FAILED>>
  ELSE IF ~message[i].rawReadable THEN <<LOG_PROCESSING_FAILED, LOG_HANDLER_FAILED>>
  ELSE IF fetchState[i] = "failed"
       THEN <<LOG_SEND_FAILED, LOG_PROCESSING_FAILED, LOG_HANDLER_FAILED>>
  ELSE IF fetchState[i] = "notok" THEN <<LOG_REQUEST_FAILED, LOG_SENT>>
  ELSE <<LOG_SENT>>

\* The time invocation i read from the clock: the date it uses when its
\* message has no Date header.
ClockRead(i) == IF message[i].headers.date = <<>> THEN meta[i].date ELSE <<>>

\* C10 as stated: the POST of an invocation depends only on its own message
\* and the configuration, so two invocations of one worker with equal
\* messages issue equal requests.
C10_RequestDependsOnMessageOnly ==
  \A i, j \in Invocations :
    (requests[i] # <<>> /\ requests[j] # <<>> /\ message[i] = message[j])
      => requests[i] = requests[j]

\* C10, amended: concurrent invocations are independent.  The POST of an
\* invocation depends only on its own message, the configuration and, when
\* the message has no Date header, the time the invocation read from the
\* clock; its outcome depends only on these and on how its own request
\* settled; both are what the invocation produces when run alone.
C10_InvocationsIndependent ==
  /\ \A i \in Invocations :
       /\ requests[i] # <<>> =>
            requests[i] = <<Request(env, Metadata(message[i], ClockRead(i)),
                                    message[i].raw)>>
       /\ phase[i] = "done" => logs[i] = OwnLogs(i) /\ result[i] = "resolved"
  /\ \A i, j \in Invocations :
       (requests[i] # <<>> /\ requests[j] # <<>> /\ message[i] = message[j]
        /\ ClockRead(i) = ClockRead(j))
         => requests[i] = requests[j]

\* C10's case: two invocations with different messages, each with its POST
\* issued, the second one's still in flight when the first is over.
C10_Witness ==
  /\ message[1] = TestMessage
  /\ message[2] = BareMessage
  /\ phase[1] = "done"
  /\ fetchState[2] = "inflight"
  /\ requests[1] # <<>>
  /\ requests[2] # <<>>

=============================================================================
